---- MODULE Spec2Model ----
(***************************************************************************)
(* A model of rbm.py: the RBM variants (binary-binary RBM,                 *)
(* GaussianBinaryRBM, mu_pooled_ssRBM), the block Gibbs step, the          *)
(* PersistentCDSampler, training_updates and build_stacked_RBM.            *)
(*                                                                         *)
(* Tensors are matrices (sequences of rows) and vectors (sequences) of     *)
(* integers.  A probability sigmoid(x) is kept as the record               *)
(* [sigmoid |-> x]; a uniform draw u is kept as its logit, so that the     *)
(* code's comparison  u < sigmoid(x)  is the integer comparison            *)
(* logit(u) < x.  Theano builds expressions when the methods are called    *)
(* and evaluates them when the caller runs the compiled function with the  *)
(* update set: a shape mismatch is therefore found at evaluation, not at   *)
(* the call.                                                               *)
(***************************************************************************)
EXTENDS Integers, Sequences, FiniteSets, TLC

(* ----------------------------- bounds --------------------------------- *)
MaxBatch == 2      \* batch_size and the rows of the seed particles: 1..MaxBatch
MaxVis == 2        \* nvis and the columns of the seed particles: 1..MaxVis
MaxHid == 1        \* nhid of the trained model: 1..MaxHid
MaxSteps == 2      \* steps of the sampler: -1..MaxSteps
MaxNoise == 1      \* random draws lie in -MaxNoise..MaxNoise
MaxLayers == 2     \* build_stacked_RBM: Len(nhids) in 0..MaxLayers
MaxStackHid == 2   \* build_stacked_RBM: the entries of nhids: 1..MaxStackHid

None == <<>>

Noise == (0 - MaxNoise)..MaxNoise
\* One call of rng.uniform / rng.normal: the draw is a checkerboard of two
\* scalars, laid out over the size the code asks for.
HDraws == {<<a, a>> : a \in {0 - MaxNoise, MaxNoise}}
VDraws == {<<a, 0 - a>> : a \in Noise}
Draw == [h : HDraws, v : VDraws]

(* ----------------------------- tensors -------------------------------- *)
Rows(m) == Len(m)
Cols(m) == IF Len(m) = 0 THEN 0 ELSE Len(m[1])
Shape(m) == <<Rows(m), Cols(m)>>

\* A vector is a tuple of entries and a matrix a tuple of rows (f \o <<>> is
\* the function f over 1..n as a tuple).
Vec(f) == f \o <<>>

\* numpy.zeros(n), numpy.ones(n)
zeros(n) == Vec([j \in 1..n |-> 0])
ones(n) == Vec([j \in 1..n |-> 1])
Fill(r, c, x) == Vec([i \in 1..r |-> Vec([j \in 1..c |-> x])])

RECURSIVE SumSeq(_)
SumSeq(s) == IF s = <<>> THEN 0 ELSE Head(s) + SumSeq(Tail(s))

\* tensor.dot(a, b)
dot(a, b) ==
    Vec([i \in 1..Rows(a) |-> Vec([j \in 1..Cols(b) |->
        SumSeq([k \in 1..Cols(a) |-> a[i][k] * b[k][j]])])])

\* m.T
Transpose(m) == Vec([j \in 1..Cols(m) |-> Vec([i \in 1..Rows(m) |-> m[i][j]])])

\* vector + matrix, vector * matrix, matrix / vector: the vector is broadcast
\* over the rows
AddVec(vec, m) ==
    Vec([i \in 1..Rows(m) |-> Vec([j \in 1..Cols(m) |-> vec[j] + m[i][j]])])
MulVec(vec, m) ==
    Vec([i \in 1..Rows(m) |-> Vec([j \in 1..Cols(m) |-> vec[j] * m[i][j]])])
DivVec(m, vec) ==
    Vec([i \in 1..Rows(m) |-> Vec([j \in 1..Cols(m) |-> m[i][j] \div vec[j]])])
AddMat(a, b) ==
    Vec([i \in 1..Rows(a) |-> Vec([j \in 1..Cols(a) |-> a[i][j] + b[i][j]])])

\* nnet.sigmoid(x)
sigmoid(x) == [sigmoid |-> x]

\* rng.uniform(size=size) and rng.normal(size=size) for the draw d
uniform(size, d) ==
    Vec([i \in 1..size[1] |-> Vec([j \in 1..size[2] |->
        IF (i + j) % 2 = 0 THEN d[1] ELSE d[2]])])
normal(size, d) == uniform(size, d)

\* tensor.cast(u < mean, floatX), mean a sigmoid
LessThan(u, mean) ==
    Vec([i \in 1..Rows(u) |-> Vec([j \in 1..Cols(u) |->
        IF u[i][j] < mean.sigmoid[i][j] THEN 1 ELSE 0])])

\* tensor.clip(x, lo, hi)
clip(x, lo, hi) ==
    Vec([i \in 1..Rows(x) |-> Vec([j \in 1..Cols(x) |->
        IF x[i][j] < lo THEN lo ELSE IF x[i][j] > hi THEN hi ELSE x[i][j]])])

InRange(x, lo, hi) ==
    \A i \in 1..Rows(x) : \A j \in 1..Cols(x) : lo <= x[i][j] /\ x[i][j] <= hi

IsBinary(x) == InRange(x, 0, 1)

(* --------------------------- construction ------------------------------ *)
\* The ways a caller supplies rng: None, an integer seed (the default 9001 of
\* RBM.__init__ is one), or a numpy RandomState object.
RngKinds == {"None", "int", "RandomState"}

\* The scaled value of (0.5 - rng.rand(...)) * irange that the generator yields.
WInit == {1}

\* RBM.__init__ : rng None is replaced by RandomState(1001); anything else is
\* used as it is, and rng.rand fails on an object that has no rand.
RBM_init(nvis, nhid, batch_size, rng, w) ==
    IF rng \notin {"None", "RandomState"}
    THEN [exc |-> "AttributeError"]
    ELSE [exc |-> "none",
          self |-> [cls |-> "RBM", nvis |-> nvis, nhid |-> nhid,
                    batch_size |-> batch_size, _params |-> <<"vb", "hb", "W">>],
          vars |-> ("vb" :> zeros(nvis)) @@ ("hb" :> zeros(nhid))
                   @@ ("W" :> Fill(nvis, nhid, w))]

\* GaussianBinaryRBM.__init__
GaussianBinaryRBM_init(nvis, nhid, batch_size, rng, mean_vis, w) ==
    LET base == RBM_init(nvis, nhid, batch_size, rng, w)
    IN  IF base.exc # "none" THEN base
        ELSE [exc |-> "none",
              self |-> [cls |-> "GaussianBinaryRBM", nvis |-> nvis, nhid |-> nhid,
                        batch_size |-> batch_size, _params |-> base.self._params,
                        mean_vis |-> mean_vis],
              vars |-> base.vars @@ ("sigma" :> ones(nvis))]

\* mu_pooled_ssRBM.__init__ with alpha0 = 1, mu0 = 0, b0 = 0, B0 = 1, Lambda0 = 0
\* and no random part in alpha and Lambda (alpha_irange = Lambda_irange = 0).
mu_pooled_ssRBM_init(nvis, nhid, n_s_per_h, batch_size, rng, w) ==
    LET nslab == nhid * n_s_per_h
    IN  IF rng \notin {"None", "RandomState"}
        THEN [exc |-> "AttributeError"]
        ELSE [exc |-> "none",
              self |-> [cls |-> "mu_pooled_ssRBM", nvis |-> nvis, nhid |-> nhid,
                        nslab |-> nslab, n_s_per_h |-> n_s_per_h,
                        batch_size |-> batch_size,
                        _params |-> <<"mu", "B", "Lambda", "W", "b", "log_alpha">>],
              vars |-> ("log_alpha" :> zeros(nslab)) @@ ("mu" :> zeros(nslab))
                       @@ ("b" :> zeros(nhid)) @@ ("W" :> Fill(nvis, nslab, w))
                       @@ ("B" :> ones(nvis)) @@ ("Lambda" :> Fill(nvis, nhid, 0))]

\* Python truth value of the mean_vis attribute
Truthy(x) == x = "True"

(* ----------------------- conditional distributions -------------------- *)
\* RBM.input_to_h_from_v
RBM_input_to_h_from_v(vars, v) ==
    AddVec(vars["hb"], dot(v, vars["W"]))

\* GaussianBinaryRBM.input_to_h_from_v
GaussianBinaryRBM_input_to_h_from_v(vars, v) ==
    AddVec(vars["hb"], dot(DivVec(v, vars["sigma"]), vars["W"]))

\* mu_pooled_ssRBM.input_to_h_from_v: not an integer expression, it is kept
\* as the expression over its argument
mu_pooled_ssRBM_input_to_h_from_v(vars, v) ==
    [expr |-> "mu_pooled_ssRBM.input_to_h_from_v", v |-> v]

\* self.input_to_h_from_v(v): the method the class of self resolves to
input_to_h_from_v(self, vars, v) ==
    CASE self.cls = "RBM" -> RBM_input_to_h_from_v(vars, v)
      [] self.cls = "GaussianBinaryRBM" -> GaussianBinaryRBM_input_to_h_from_v(vars, v)
      [] self.cls = "mu_pooled_ssRBM" -> mu_pooled_ssRBM_input_to_h_from_v(vars, v)

\* RBM.mean_h_given_v, inherited by every variant
mean_h_given_v(self, vars, v) == sigmoid(input_to_h_from_v(self, vars, v))

\* RBM.mean_v_given_h
RBM_mean_v_given_h(vars, h) ==
    sigmoid(AddVec(vars["vb"], dot(h, Transpose(vars["W"]))))

\* GaussianBinaryRBM.mean_v_given_h
GaussianBinaryRBM_mean_v_given_h(vars, h) ==
    AddVec(vars["vb"], MulVec(vars["sigma"], dot(h, Transpose(vars["W"]))))

\* Mutant: mean_v_given_h of the pooled variant as a stub that hands back its
\* argument instead of raising.
mu_pooled_ssRBM_mean_v_given_h_stub(vars, h) ==
    [exc |-> "none", val |-> h]

\* mu_pooled_ssRBM.mean_v_given_h
mu_pooled_ssRBM_mean_v_given_h(vars, h) ==
    [exc |-> "NotImplementedError"]

\* self.mean_v_given_h(h): the method the class of self resolves to
mean_v_given_h(self, vars, h) ==
    CASE self.cls = "RBM" -> [exc |-> "none", val |-> RBM_mean_v_given_h(vars, h)]
      [] self.cls = "GaussianBinaryRBM" ->
            [exc |-> "none", val |-> GaussianBinaryRBM_mean_v_given_h(vars, h)]
      [] self.cls = "mu_pooled_ssRBM" -> mu_pooled_ssRBM_mean_v_given_h(vars, h)

\* RBM.sample_visibles
RBM_sample_visibles(params, shape, d) ==
    LessThan(uniform(shape, d), params[1])

\* GaussianBinaryRBM.sample_visibles
GaussianBinaryRBM_sample_visibles(self, vars, params, shape, d) ==
    LET v_mean == params[1]
    IN  IF Truthy(self.mean_vis)
        THEN v_mean
        ELSE AddMat(MulVec(vars["sigma"], normal(shape, d)), v_mean)

\* mu_pooled_ssRBM.sample_visibles
mu_pooled_ssRBM_sample_visibles(params, shape, d) ==
    [exc |-> "NotImplementedError"]

\* self.sample_visibles(params, shape, rng)
sample_visibles(self, vars, params, shape, d) ==
    CASE self.cls = "RBM" ->
            [exc |-> "none", val |-> RBM_sample_visibles(params, shape, d)]
      [] self.cls = "GaussianBinaryRBM" ->
            [exc |-> "none",
             val |-> GaussianBinaryRBM_sample_visibles(self, vars, params, shape, d)]
      [] self.cls = "mu_pooled_ssRBM" -> mu_pooled_ssRBM_sample_visibles(params, shape, d)

(* ------------------------------ Gibbs step ---------------------------- *)
\* Mutant: the Gibbs step propagating the mean of the hidden units instead of
\* their sample.  The visible conditional takes 0/1 tensors here, so the mean
\* is handed on rounded: 1 where it exceeds one half.
RBM_gibbs_step_for_v_mean_field(self, vars, v, d) ==
    LET h_mean == mean_h_given_v(self, vars, v)
        h_mean_shape == <<self.batch_size, self.nhid>>
        h_sample == LessThan(uniform(h_mean_shape, d.h), h_mean)
        h_round == LessThan(Fill(self.batch_size, self.nhid, 0), h_mean)
        v_mean_shape == <<self.batch_size, self.nvis>>
        v_mean == mean_v_given_h(self, vars, h_round).val
        v_sample == sample_visibles(self, vars, <<v_mean>>, v_mean_shape, d.v).val
    IN  [v |-> v, h_mean |-> h_mean, h_mean_shape |-> h_mean_shape,
         h_sample |-> h_sample, hidden_arg |-> h_round,
         v_mean_shape |-> v_mean_shape, v_mean |-> v_mean, v_sample |-> v_sample]

\* RBM.gibbs_step_for_v, used by RBM and GaussianBinaryRBM.  hidden_arg is the
\* argument handed to the visible conditional.
RBM_gibbs_step_for_v(self, vars, v, d) ==
    LET h_mean == mean_h_given_v(self, vars, v)
        h_mean_shape == <<self.batch_size, self.nhid>>
        h_sample == LessThan(uniform(h_mean_shape, d.h), h_mean)
        v_mean_shape == <<self.batch_size, self.nvis>>
        v_mean == mean_v_given_h(self, vars, h_sample).val
        v_sample == sample_visibles(self, vars, <<v_mean>>, v_mean_shape, d.v).val
    IN  [v |-> v, h_mean |-> h_mean, h_mean_shape |-> h_mean_shape,
         h_sample |-> h_sample, hidden_arg |-> h_sample,
         v_mean_shape |-> v_mean_shape, v_mean |-> v_mean, v_sample |-> v_sample]

\* Mutant: the pooled Gibbs step drawing the visibles with the shape of the
\* hidden layer.
mu_pooled_ssRBM_gibbs_step_for_v_hid_shape(self, vars, v, d) ==
    LET h_mean == mean_h_given_v(self, vars, v)
        h_mean_shape == <<self.batch_size, self.nhid>>
        h_sample == LessThan(uniform(h_mean_shape, d.h),
                             sigmoid(Fill(self.batch_size, self.nhid, 0)))
        s_mu_shape == <<self.batch_size, self.nslab>>
        s_sample == [expr |-> "s_mu + normal * sqrt(s_var)", v |-> v,
                     shape |-> s_mu_shape]
        v_mean == [expr |-> "mu_pooled_ssRBM.mean_var_v_given_h_s",
                   h |-> h_sample, s |-> s_sample]
        v_mean_shape == h_mean_shape
        v_sample == normal(v_mean_shape, d.v)
    IN  [v |-> v, h_mean |-> h_mean, h_mean_shape |-> h_mean_shape,
         h_sample |-> h_sample, hidden_arg |-> h_sample,
         v_mean_shape |-> v_mean_shape, v_mean |-> v_mean, v_sample |-> v_sample]

\* mu_pooled_ssRBM.gibbs_step_for_v.  Its conditionals are not integer
\* expressions; they are kept as expressions over their arguments.  h_mean lies
\* strictly inside (0, 1), so the comparison with the uniform draw can go either
\* way: its outcome is the sign of the draw.  v_var is positive, so v_sample is
\* an affine image of the normal draw: it is any tensor of the draw's shape.
mu_pooled_ssRBM_gibbs_step_for_v(self, vars, v, d) ==
    LET h_mean == mean_h_given_v(self, vars, v)
        h_mean_shape == <<self.batch_size, self.nhid>>
        h_sample == LessThan(uniform(h_mean_shape, d.h),
                             sigmoid(Fill(self.batch_size, self.nhid, 0)))
        s_mu_shape == <<self.batch_size, self.nslab>>
        s_sample == [expr |-> "s_mu + normal * sqrt(s_var)", v |-> v,
                     shape |-> s_mu_shape]
        v_mean == [expr |-> "mu_pooled_ssRBM.mean_var_v_given_h_s",
                   h |-> h_sample, s |-> s_sample]
        v_mean_shape == <<self.batch_size, self.nvis>>
        v_sample == normal(v_mean_shape, d.v)
    IN  [v |-> v, h_mean |-> h_mean, h_mean_shape |-> h_mean_shape,
         h_sample |-> h_sample, hidden_arg |-> h_sample,
         v_mean_shape |-> v_mean_shape, v_mean |-> v_mean, v_sample |-> v_sample]

\* self.rbm.gibbs_step_for_v(particles, self.s_rng)
gibbs_step_for_v(self, vars, v, d) ==
    IF self.cls = "mu_pooled_ssRBM"
    THEN mu_pooled_ssRBM_gibbs_step_for_v(self, vars, v, d)
    ELSE RBM_gibbs_step_for_v(self, vars, v, d)

\* Whether the expression a Gibbs step builds on v can be evaluated: the dot
\* products need nvis columns, and the elementwise comparison with the draw of
\* h_mean_shape needs batch_size rows.
Evaluable(self, v) == Shape(v) = <<self.batch_size, self.nvis>>

(* --------------------------- PersistentCDSampler ---------------------- *)
\* xrange(steps)
xrange(steps) == 1..steps

\* The draw the random stream yields in iteration i: the streams tried yield
\* d, -d, d, ...
DrawAt(d, i) ==
    IF i % 2 = 1 THEN d
    ELSE [h |-> <<0 - d.h[1], 0 - d.h[2]>>, v |-> <<0 - d.v[1], 0 - d.v[2]>>]

\* The assignment of a value to a local name, written
\*     TheValue({ code after the assignment : name \in {value} })
\* so that the value is computed once.
TheValue(S) == CHOOSE x \in S : TRUE

\* Mutant: the loop body without the clamp.
LoopBody_no_clip(self, vars, particles_clip, particles, ok, age, d) ==
    IF ok /\ Evaluable(self, particles)
    THEN TheValue({
                [ok |-> TRUE, _locals |-> _locals, particles |-> _locals.v_sample,
                 age |-> age + 1]
              : _locals \in {gibbs_step_for_v(self, vars, particles, d)}})
    ELSE [ok |-> FALSE, _locals |-> [v |-> particles, h_mean |-> [raises |-> "ValueError"]],
          particles |-> [raises |-> "ValueError"], age |-> age + 1]

\* The body of the loop of PersistentCDSampler.updates: one Gibbs step, then
\* the clamp when particles_clip is set.  ok tells whether the expression
\* built so far can be evaluated; age counts the Gibbs steps between the seed
\* particles and the value (a history field).
LoopBody(self, vars, particles_clip, particles, ok, age, d) ==
    IF ok /\ Evaluable(self, particles)
    THEN TheValue({
                [ok |-> TRUE, _locals |-> _locals,
                 particles |-> IF particles_clip # None
                               THEN clip(_locals.v_sample, particles_clip[1],
                                         particles_clip[2])
                               ELSE _locals.v_sample,
                 age |-> age + 1]
              : _locals \in {gibbs_step_for_v(self, vars, particles, d)}})
    ELSE [ok |-> FALSE, _locals |-> [v |-> particles, h_mean |-> [raises |-> "ValueError"]],
          particles |-> [raises |-> "ValueError"], age |-> age + 1]

\* Mutant: the loop running every Gibbs step on the particles it started
\* from, instead of on what the previous step handed on.
RECURSIVE Loop_no_refeed(_, _, _, _, _, _, _, _, _)
Loop_no_refeed(self, vars, particles_clip, particles, ok, age, tape, i, steps) ==
    IF i \notin xrange(steps)
    THEN <<>>
    ELSE TheValue({
                <<it>> \o Loop_no_refeed(self, vars, particles_clip, particles, it.ok,
                                         it.age, tape, i + 1, steps)
              : it \in {LoopBody(self, vars, particles_clip, particles, ok, age, DrawAt(tape, i))}})

\* for i in xrange(steps): ...   The result is the sequence of the iterations.
RECURSIVE Loop(_, _, _, _, _, _, _, _, _)
Loop(self, vars, particles_clip, particles, ok, age, tape, i, steps) ==
    IF i \notin xrange(steps)
    THEN <<>>
    ELSE TheValue({
                <<it>> \o Loop(self, vars, particles_clip, it.particles, it.ok,
                               it.age, tape, i + 1, steps)
              : it \in {LoopBody(self, vars, particles_clip, particles, ok, age, DrawAt(tape, i))}})

\* The store of shared variables after updates(): the h_sample attribute is
\* created when the model has none.
WithHSample(vars) ==
    IF "h_sample" \notin DOMAIN vars
    THEN vars @@ ("h_sample" :> Fill(0, 0, 0))
    ELSE vars

\* Mutant: updates() storing the h_mean of the first Gibbs step.
PersistentCDSampler_updates_first_h_mean(self, smp, vars, age, tape) ==
    TheValue({
           LET last == its[Len(its)]
           IN  IF its = <<>>
               THEN [exc |-> "UnboundLocalError", upd |-> <<>>, evaluable |-> FALSE,
                     its |-> its, age |-> age, vars |-> WithHSample(vars)]
               ELSE [exc |-> "none",
                     upd |-> ("particles" :> last.particles)
                             @@ ("h_sample" :> its[1]._locals.h_mean),
                     evaluable |-> last.ok, its |-> its, age |-> last.age,
                     vars |-> WithHSample(vars)]
              : its \in {Loop(self, vars, smp.particles_clip, vars["particles"], TRUE, age,
              tape, 1, smp.steps)}})

\* Mutant: updates() with _locals bound before the loop, so that a sampler
\* without Gibbs steps returns an update set that maps the state to itself.
PersistentCDSampler_updates_identity(self, smp, vars, age, tape) ==
    TheValue({
           LET last == its[Len(its)]
           IN  IF its = <<>>
               THEN [exc |-> "none",
                     upd |-> ("particles" :> vars["particles"])
                             @@ ("h_sample" :> WithHSample(vars)["h_sample"]),
                     evaluable |-> TRUE, its |-> its, age |-> age,
                     vars |-> WithHSample(vars)]
               ELSE [exc |-> "none",
                     upd |-> ("particles" :> last.particles)
                             @@ ("h_sample" :> last._locals.h_mean),
                     evaluable |-> last.ok, its |-> its, age |-> last.age,
                     vars |-> WithHSample(vars)]
              : its \in {Loop(self, vars, smp.particles_clip, vars["particles"], TRUE, age,
              tape, 1, smp.steps)}})

\* Mutant: updates() assigning the new particles to the shared variable in
\* place (self.particles.set_value) besides returning them.
PersistentCDSampler_updates_in_place(self, smp, vars, age, tape) ==
    TheValue({
           LET last == its[Len(its)]
           IN  IF its = <<>>
               THEN [exc |-> "UnboundLocalError", upd |-> <<>>, evaluable |-> FALSE,
                     its |-> its, age |-> age, vars |-> WithHSample(vars)]
               ELSE [exc |-> "none",
                     upd |-> ("particles" :> last.particles)
                             @@ ("h_sample" :> last._locals.h_mean),
                     evaluable |-> last.ok, its |-> its, age |-> last.age,
                     vars |-> IF last.ok
                              THEN [WithHSample(vars) EXCEPT !["particles"] = last.particles]
                              ELSE WithHSample(vars)]
              : its \in {Loop(self, vars, smp.particles_clip, vars["particles"], TRUE, age,
              tape, 1, smp.steps)}})

\* PersistentCDSampler.updates.  its is the sequence of the loop's iterations;
\* the vars field is the store of shared variables after the call.
PersistentCDSampler_updates(self, smp, vars, age, tape) ==
    TheValue({
           LET last == its[Len(its)]
           IN  IF its = <<>>
               THEN \* _locals was never bound
                    [exc |-> "UnboundLocalError", upd |-> <<>>, evaluable |-> FALSE,
                     its |-> its, age |-> age, vars |-> WithHSample(vars)]
               ELSE [exc |-> "none",
                     upd |-> ("particles" :> last.particles)
                             @@ ("h_sample" :> last._locals.h_mean),
                     evaluable |-> last.ok, its |-> its, age |-> last.age,
                     vars |-> WithHSample(vars)]
              : its \in {Loop(self, vars, smp.particles_clip, vars["particles"], TRUE, age,
              tape, 1, smp.steps)}})

(* --------------------------- training_updates ------------------------- *)
\* RBM.ml_gradients: the gradient expression of the contrastive cost, with the
\* two inputs held constant
ml_gradients(self, pos_v, neg_v) ==
    [wrt |-> self._params, pos_v |-> pos_v, neg_v |-> neg_v]

VectorKeys == {"vb", "hb", "sigma", "mu", "B", "b", "log_alpha"}

\* optimizer.updates(gradients=grads): an update set over keys; every entry of
\* the new value of a key is g.
optimizer_updates(self, vars, keys, g, grads) ==
    [k \in keys |->
        IF k \in VectorKeys THEN Vec([j \in 1..Len(vars[k]) |-> g])
        ELSE IF k = "h_sample" THEN Fill(self.batch_size, self.nhid, g)
        ELSE Fill(Rows(vars[k]), Cols(vars[k]), g)]

\* utils.safe_update(dict_to, dict_from): a merge that fails on a key present
\* in both
safe_update(dict_to, dict_from) ==
    IF DOMAIN dict_to \cap DOMAIN dict_from # {}
    THEN [exc |-> "KeyError"]
    ELSE [exc |-> "none", val |-> dict_to @@ dict_from]

\* Mutant: training_updates merging with dict.update, which overwrites.
training_updates_overwrite(visible_batch, self, smp, vars, age, keys, g, tape) ==
    LET pos_v == visible_batch
        neg_v == vars["particles"]
        grads == ml_gradients(self, pos_v, neg_v)
        ups == optimizer_updates(self, vars, keys, g, grads)
    IN  TheValue({
               [exc |-> su.exc,
                upd |-> IF su.exc = "none" THEN su.upd @@ ups ELSE <<>>,
                evaluable |-> su.evaluable /\ Cols(pos_v) = self.nvis
                              /\ Cols(neg_v) = self.nvis,
                grads |-> grads, ups |-> ups, su |-> su]
              : su \in {PersistentCDSampler_updates(self, smp, vars, age, tape)}})

\* Mutant: training_updates taking the negative phase from the particles the
\* sampler computes in this call.
training_updates_resampled(visible_batch, self, smp, vars, age, keys, g, tape) ==
    TheValue({
           LET pos_v == visible_batch
               neg_v == IF su.exc = "none" THEN su.upd["particles"] ELSE vars["particles"]
               grads == ml_gradients(self, pos_v, neg_v)
               ups == optimizer_updates(self, vars, keys, g, grads)
               merged == IF su.exc = "none" THEN safe_update(ups, su.upd) ELSE su
           IN  [exc |-> merged.exc,
                upd |-> IF merged.exc = "none" THEN merged.val ELSE <<>>,
                evaluable |-> su.evaluable,
                grads |-> grads, ups |-> ups, su |-> su]
              : su \in {PersistentCDSampler_updates(self, smp, vars, age, tape)}})

\* training_updates(visible_batch, model, sampler, optimizer).  su is what
\* sampler.updates() returned or raised.
training_updates(visible_batch, self, smp, vars, age, keys, g, tape) ==
    LET pos_v == visible_batch
        neg_v == vars["particles"]
        grads == ml_gradients(self, pos_v, neg_v)
        ups == optimizer_updates(self, vars, keys, g, grads)
    IN  TheValue({
               LET merged == IF su.exc = "none" THEN safe_update(ups, su.upd) ELSE su
               IN  [exc |-> merged.exc,
                    upd |-> IF merged.exc = "none" THEN merged.val ELSE <<>>,
                    evaluable |-> su.evaluable /\ Cols(pos_v) = self.nvis
                                  /\ Cols(neg_v) = self.nvis,
                    grads |-> grads, ups |-> ups, su |-> su]
              : su \in {PersistentCDSampler_updates(self, smp, vars, age, tape)}})

(* --------------------------- build_stacked_RBM ------------------------ *)
\* nhids[:-1]
AllButLast(seq) == SubSeq(seq, 1, Len(seq) - 1)

\* The layer built in iteration k of the loop of build_stacked_RBM (k counts
\* from 1 here, from 0 in the code)
StackLayer(k, nhid, nvis, batch_size, vis_type, input_mean_vis, rng, w) ==
    IF k = 1 /\ vis_type = "gaussian"
    THEN GaussianBinaryRBM_init(nvis, nhid, batch_size, rng, input_mean_vis, w)
    ELSE RBM_init(nvis - nvis, nhid, batch_size, rng, w)

\* build_stacked_RBM.  The second assert of the gaussian branch reads
\* "assert input_mean_vis in True, False": the test is the membership of
\* input_mean_vis in the bool True, which raises TypeError for every value.
build_stacked_RBM(nvis, nhids, batch_size, vis_type, input_mean_vis, rng, w) ==
    LET nviss == <<nvis>> \o AllButLast(nhids)
        built == [k \in 1..Len(nhids) |->
                    StackLayer(k, nhids[k], nviss[k], batch_size, vis_type,
                               input_mean_vis, rng, w)]
        failed == {k \in 1..Len(nhids) : built[k].exc # "none"}
    IN  IF vis_type \notin {"binary", "gaussian"}
        THEN [exc |-> "AssertionError", layers |-> <<>>]
        ELSE IF vis_type = "binary" /\ input_mean_vis # "None"
        THEN [exc |-> "AssertionError", layers |-> <<>>]
        ELSE IF vis_type = "gaussian"
        THEN [exc |-> "TypeError", layers |-> <<>>]
        ELSE IF failed # {}
        THEN [exc |-> built[CHOOSE k \in failed : \A j \in failed : k <= j].exc,
              layers |-> <<>>]
        ELSE [exc |-> "none", layers |-> Vec([k \in 1..Len(nhids) |-> built[k].self])]

(* ------------------------------- state -------------------------------- *)
VARIABLES
    rbm,        \* the model object: class, nvis, nhid, batch_size, ...
    sampler,    \* the PersistentCDSampler: steps, particles_clip
    shared,     \* the shared variables: the model's tensors, particles, h_sample
    ret,        \* the outcome of the last call
    commits,    \* number of update sets the caller has applied
    sweeps,     \* Gibbs steps between the seed particles and shared["particles"]
    stack       \* the outcome of the last build_stacked_RBM call

vars == <<rbm, sampler, shared, ret, commits, sweeps, stack>>

MaxCommits == 2    \* the caller applies at most MaxCommits update sets

NoCall == [op |-> "none"]

Variants == {<<"RBM", "None">>, <<"GaussianBinaryRBM", "False">>,
             <<"GaussianBinaryRBM", "True">>, <<"mu_pooled_ssRBM", "None">>}

\* the entries of the caller's seed particles and of a minibatch
SeedVals == {0, 2}
DataVals == {1}
\* every new parameter entry an optimizer step produces
OptVals == {1}
ClipChoices == {None, <<0, 1>>}
StepChoices == (0 - 1)..MaxSteps

Construct(variant, nvis, nhid, batch_size, w) ==
    CASE variant[1] = "RBM" -> RBM_init(nvis, nhid, batch_size, "RandomState", w)
      [] variant[1] = "GaussianBinaryRBM" ->
            GaussianBinaryRBM_init(nvis, nhid, batch_size, "RandomState", variant[2], w)
      [] variant[1] = "mu_pooled_ssRBM" ->
            mu_pooled_ssRBM_init(nvis, nhid, 1, batch_size, "RandomState", w)

\* Sampler.__init__ and PersistentCDSampler.__init__
PersistentCDSampler_init(particles, steps, particles_clip) ==
    [particles |-> particles, steps |-> steps, particles_clip |-> particles_clip]

\* The state after the model and the sampler are constructed
Constructed(variant, nvis, nhid, batch_size, w, particles, steps, particles_clip) ==
    LET m == Construct(variant, nvis, nhid, batch_size, w)
        s == PersistentCDSampler_init(particles, steps, particles_clip)
    IN  /\ rbm = m.self
        /\ sampler = [steps |-> s.steps, particles_clip |-> s.particles_clip]
        /\ shared = m.vars @@ ("particles" :> s.particles)
        /\ ret = NoCall
        /\ commits = 0
        /\ sweeps = 0
        /\ stack = NoCall

Init ==
    \E variant \in Variants, nvis \in 1..MaxVis, nhid \in 1..MaxHid,
       batch_size \in 1..MaxBatch, w \in WInit,
       r \in 1..MaxBatch, c \in 1..MaxVis, x \in SeedVals,
       steps \in StepChoices, particles_clip \in ClipChoices :
        Constructed(variant, nvis, nhid, batch_size, w, Fill(r, c, x), steps,
                    particles_clip)

\* The random streams tried.  The draws are made when the expression is
\* evaluated: an expression that has no Gibbs step, or that cannot be
\* evaluated, draws nothing, and one stream stands for all.
Tapes(self, smp, store) ==
    IF smp.steps >= 1 /\ Evaluable(self, store["particles"])
    THEN Draw
    ELSE {CHOOSE d \in Draw : TRUE}

ParamKeys(self) == {self._params[i] : i \in 1..Len(self._params)}

\* The key sets of the optimizers tried: the model's parameters, and rigged
\* ones that also name a shared variable of the sampler.
OptKeySets(self, store) ==
    {ParamKeys(self), ParamKeys(self) \cup {"particles"}}
    \cup (IF "h_sample" \in DOMAIN store THEN {ParamKeys(self) \cup {"h_sample"}} ELSE {})

\* sampler.updates() called by itself
SamplerUpdates ==
    /\ commits < MaxCommits
    /\ \E tape \in Tapes(rbm, sampler, shared) :
        \E su \in {PersistentCDSampler_updates(rbm, sampler, shared, sweeps, tape)} :
            /\ ret' = [op |-> "updates", exc |-> su.exc, upd |-> su.upd,
                       evaluable |-> su.evaluable, its |-> su.its, age |-> su.age]
            /\ shared' = su.vars
    /\ UNCHANGED <<rbm, sampler, commits, sweeps, stack>>

\* training_updates(visible_batch, rbm, sampler, optimizer)
TrainingUpdates ==
    /\ commits < MaxCommits
    /\ \E tape \in Tapes(rbm, sampler, shared), x \in DataVals, g \in OptVals,
       keys \in OptKeySets(rbm, shared) :
        \E visible_batch \in {Fill(rbm.batch_size, rbm.nvis, x)} :
        \E tu \in {training_updates(visible_batch, rbm, sampler, shared, sweeps,
                                    keys, g, tape)} :
            /\ ret' = [op |-> "training_updates", exc |-> tu.exc, upd |-> tu.upd,
                       evaluable |-> tu.evaluable, its |-> tu.su.its, age |-> tu.su.age,
                       visible_batch |-> visible_batch, grads |-> tu.grads,
                       ups |-> tu.ups, sampler_upd |-> tu.su.upd]
            /\ shared' = tu.su.vars
    /\ UNCHANGED <<rbm, sampler, commits, sweeps, stack>>

\* The caller runs the compiled function: the expressions of the returned
\* update set are evaluated and every key takes its new value at once.  An
\* update set holding an expression that cannot be evaluated changes nothing.
Commit ==
    /\ ret.op \in {"updates", "training_updates"}
    /\ ret.exc = "none"
    /\ ret.evaluable
    /\ commits < MaxCommits
    /\ shared' = [k \in DOMAIN shared |->
                    IF k \in DOMAIN ret.upd THEN ret.upd[k] ELSE shared[k]]
    /\ commits' = commits + 1
    /\ sweeps' = ret.age
    /\ ret' = NoCall
    /\ UNCHANGED <<rbm, sampler, stack>>

\* rbm.mean_v_given_h(h) called by itself on a batch of hidden states
CallMeanVGivenH ==
    /\ \E x \in {0, 1} :
        \E h \in {Fill(rbm.batch_size, rbm.nhid, x)} :
        \E out \in {mean_v_given_h(rbm, shared, h)} :
            ret' = [op |-> "mean_v_given_h", exc |-> out.exc, out |-> out]
    /\ UNCHANGED <<rbm, sampler, shared, commits, sweeps, stack>>

\* rbm.sample_visibles(params, shape, rng) called by itself
CallSampleVisibles ==
    /\ \E x \in {0, 1}, d \in VDraws :
        \E v_mean \in {IF rbm.cls = "RBM"
                        THEN sigmoid(Fill(rbm.batch_size, rbm.nvis, x))
                        ELSE Fill(rbm.batch_size, rbm.nvis, x)} :
        \E out \in {sample_visibles(rbm, shared, <<v_mean>>,
                                     <<rbm.batch_size, rbm.nvis>>, d)} :
            ret' = [op |-> "sample_visibles", exc |-> out.exc, out |-> out]
    /\ UNCHANGED <<rbm, sampler, shared, commits, sweeps, stack>>

Next ==
    \/ SamplerUpdates
    \/ TrainingUpdates
    \/ Commit
    \/ CallMeanVGivenH
    \/ CallSampleVisibles

Spec == Init /\ [][Next]_vars

(* ----------------- the specification of build_stacked_RBM ------------- *)
VisTypes == {"binary", "gaussian", "softmax"}
MeanVisFlags == {"None", "True", "False"}

RECURSIVE SeqsUpTo(_, _)
\* the sequences over S of length 1..n
SeqsUpTo(S, n) ==
    IF n = 0 THEN {}
    ELSE SeqsUpTo(S, n - 1) \cup [1..n -> S]

StackInit ==
    Constructed(<<"RBM", "None">>, 1, 1, 1, 1, Fill(1, 1, 0), 1, None)

BuildStackedRBM ==
    /\ \E nvis \in 1..MaxVis, nhids \in SeqsUpTo(1..MaxStackHid, MaxLayers),
          batch_size \in 1..MaxBatch, vis_type \in VisTypes,
          input_mean_vis \in MeanVisFlags, rng \in RngKinds, w \in WInit :
        \E out \in {build_stacked_RBM(nvis, nhids, batch_size, vis_type,
                                       input_mean_vis, rng, w)} :
            stack' = [op |-> "build_stacked_RBM", nvis |-> nvis, nhids |-> nhids,
                      batch_size |-> batch_size, vis_type |-> vis_type,
                      input_mean_vis |-> input_mean_vis, rng |-> rng,
                      exc |-> out.exc, layers |-> out.layers]
    /\ UNCHANGED <<rbm, sampler, shared, ret, commits, sweeps>>

StackNext == BuildStackedRBM

StackSpec == StackInit /\ [][StackNext]_vars

(* ------------------ the specification of the constructors ------------ *)
\* What a caller writes for rng: one of the kinds, or nothing
RngArgs == RngKinds \cup {"omitted"}

\* The defaults of the rng parameter: rng=9001 in RBM.__init__, rng=None in
\* GaussianBinaryRBM.__init__ and in mu_pooled_ssRBM.__init__
RBM_rng_default == "int"
GaussianBinaryRBM_rng_default == "None"
mu_pooled_ssRBM_rng_default == "None"

\* The value a parameter with a default takes
Supplied(arg, default) == IF arg = "omitted" THEN default ELSE arg

\* What the caller holds after a constructor call: the object and its
\* tensors, or the exception
Outcome(op, nvis, nhid, batch_size, rng, out) ==
    [op |-> op, nvis |-> nvis, nhid |-> nhid, batch_size |-> batch_size,
     rng |-> rng, exc |-> out.exc,
     self |-> IF out.exc = "none" THEN out.self ELSE None,
     vars |-> IF out.exc = "none" THEN out.vars ELSE None]

CtorInit == StackInit

\* RBM(nvis, nhid, batch_size[, rng=...])
ConstructRBM ==
    /\ \E nvis \in 1..MaxVis, nhid \in 1..MaxStackHid, batch_size \in 1..MaxBatch,
          rng \in RngArgs, w \in WInit :
        \E out \in {RBM_init(nvis, nhid, batch_size,
                             Supplied(rng, RBM_rng_default), w)} :
            ret' = Outcome("RBM", nvis, nhid, batch_size, rng, out)
    /\ UNCHANGED <<rbm, sampler, shared, commits, sweeps, stack>>

\* GaussianBinaryRBM(nvis, nhid, batch_size[, rng=...], mean_vis=...)
ConstructGaussianBinaryRBM ==
    /\ \E nvis \in 1..MaxVis, nhid \in 1..MaxStackHid, batch_size \in 1..MaxBatch,
          rng \in RngArgs, mean_vis \in MeanVisFlags, w \in WInit :
        \E out \in {GaussianBinaryRBM_init(nvis, nhid, batch_size,
                        Supplied(rng, GaussianBinaryRBM_rng_default), mean_vis, w)} :
            ret' = Outcome("GaussianBinaryRBM", nvis, nhid, batch_size, rng, out)
    /\ UNCHANGED <<rbm, sampler, shared, commits, sweeps, stack>>

\* mu_pooled_ssRBM(nvis, nhid, 1, batch_size, ...[, rng=...])
Construct_mu_pooled_ssRBM ==
    /\ \E nvis \in 1..MaxVis, nhid \in 1..MaxStackHid, batch_size \in 1..MaxBatch,
          rng \in RngArgs, w \in WInit :
        \E out \in {mu_pooled_ssRBM_init(nvis, nhid, 1, batch_size,
                        Supplied(rng, mu_pooled_ssRBM_rng_default), w)} :
            ret' = Outcome("mu_pooled_ssRBM", nvis, nhid, batch_size, rng, out)
    /\ UNCHANGED <<rbm, sampler, shared, commits, sweeps, stack>>

CtorNext ==
    \/ ConstructRBM
    \/ ConstructGaussianBinaryRBM
    \/ Construct_mu_pooled_ssRBM

CtorSpec == CtorInit /\ [][CtorNext]_vars

(* ------------------------------- claims ------------------------------- *)
\* the keys of the update set PersistentCDSampler.updates returns
SamplerKeys == {"particles", "h_sample"}

IsUpdatesCall == ret.op \in {"updates", "training_updates"}
Returned == IsUpdatesCall /\ ret.exc = "none"
LastIt == ret.its[Len(ret.its)]

\* C1: a training_updates call whose optimizer update set shares a key with
\* the sampler's update set ends with an error and returns no update set.
C1_CollisionRaises ==
    (ret.op = "training_updates" /\ DOMAIN ret.ups \cap SamplerKeys # {})
        => (ret.exc # "none" /\ DOMAIN ret.upd = {})

\* C1 witness: a rigged optimizer collided with a sampler that has Gibbs steps
\* to run, and the merge raised KeyError.
C1_Witness ==
    /\ ret.op = "training_updates"
    /\ sampler.steps >= 1
    /\ "particles" \in DOMAIN ret.ups
    /\ ret.exc = "KeyError"

\* C2: with disjoint keys (and steps >= 1) training_updates returns exactly the
\* union: each optimizer key with the optimizer's value, particles with the
\* sampler's next particles, h_sample with the last Gibbs step's h_mean.
C2_MergedIsUnion ==
    (ret.op = "training_updates" /\ sampler.steps >= 1
        /\ DOMAIN ret.ups \cap SamplerKeys = {})
        => /\ ret.exc = "none"
           /\ DOMAIN ret.upd = DOMAIN ret.ups \cup SamplerKeys
           /\ \A k \in DOMAIN ret.ups : ret.upd[k] = ret.ups[k]
           /\ ret.upd["particles"] = LastIt.particles
           /\ ret.upd["h_sample"] = LastIt._locals.h_mean

\* C2 witness: a returned merge of a two-step sampler whose two Gibbs steps
\* have different h_mean.
C2_Witness ==
    /\ ret.op = "training_updates"
    /\ ret.exc = "none"
    /\ ret.evaluable
    /\ Len(ret.its) = 2
    /\ ret.its[1]._locals.h_mean # ret.its[2]._locals.h_mean
    /\ ret.upd["h_sample"] = ret.its[2]._locals.h_mean

\* C3: the negative-phase input of ml_gradients is the particles as they stand
\* before the call's Gibbs steps, and the positive-phase input is visible_batch.
C3_NegativePhaseIsCurrent ==
    ret.op = "training_updates"
        => /\ ret.grads.neg_v = shared["particles"]
           /\ ret.grads.pos_v = ret.visible_batch

\* C3 witness: a returned call whose next particles differ from the current
\* ones, so that the two candidates for neg_v are told apart.
C3_Witness ==
    /\ ret.op = "training_updates"
    /\ ret.exc = "none"
    /\ ret.evaluable
    /\ ret.upd["particles"] # shared["particles"]
    /\ ret.grads.neg_v = shared["particles"]

\* What the loop hands from one iteration to the next: the sampled visibles,
\* clamped when particles_clip is set.
HandedOn(it) ==
    IF sampler.particles_clip # None
    THEN clip(it._locals.v_sample, sampler.particles_clip[1], sampler.particles_clip[2])
    ELSE it._locals.v_sample

\* C4: for steps >= 1 the next particles are the result of exactly `steps`
\* Gibbs steps run in sequence from the current particles, each step taking
\* what the previous one handed on; after n committed update sets the chain is
\* n * steps Gibbs steps away from the seed.
C4_ChainAdvances ==
    /\ (Returned /\ ret.evaluable)
        => /\ Len(ret.its) = sampler.steps
           /\ ret.its[1]._locals.v = shared["particles"]
           /\ \A i \in 1..(Len(ret.its) - 1) :
                ret.its[i + 1]._locals.v = HandedOn(ret.its[i])
           /\ ret.upd["particles"] = HandedOn(LastIt)
           /\ ret.age = sweeps + sampler.steps
    /\ sweeps = commits * sampler.steps

\* C4 witness: two update sets of a two-step sampler were committed.
C4_Witness ==
    /\ commits = 2
    /\ sampler.steps = 2
    /\ sweeps = 4

\* C5: with a clip range set, what every Gibbs step hands on, the input of
\* every step after the first and the returned next particles lie in the range.
C5_ClipEveryStep ==
    (IsUpdatesCall /\ ret.evaluable /\ sampler.particles_clip # None)
        => /\ \A i \in 1..Len(ret.its) :
                /\ InRange(ret.its[i].particles, sampler.particles_clip[1],
                           sampler.particles_clip[2])
                /\ i > 1 => InRange(ret.its[i]._locals.v, sampler.particles_clip[1],
                                    sampler.particles_clip[2])
           /\ ret.exc = "none"
                => InRange(ret.upd["particles"], sampler.particles_clip[1],
                           sampler.particles_clip[2])

\* C5 witness: a two-step call in which the first step sampled a value outside
\* the range, so that the clamp between the steps acted.
C5_Witness ==
    /\ Returned
    /\ ret.evaluable
    /\ sampler.particles_clip # None
    /\ Len(ret.its) = 2
    /\ ~InRange(ret.its[1]._locals.v_sample, sampler.particles_clip[1],
                sampler.particles_clip[2])
    /\ InRange(ret.its[2]._locals.v, sampler.particles_clip[1],
               sampler.particles_clip[2])

\* C6: once an update set of the sampler is committed, particles has shape
\* (batch_size, nvis) of the model.
C6_ParticlesShape ==
    commits >= 1 => Shape(shared["particles"]) = <<rbm.batch_size, rbm.nvis>>

\* C6 witness: a commit on a model whose nvis differs from its nhid.
C6_Witness ==
    /\ commits >= 1
    /\ rbm.nvis # rbm.nhid
    /\ rbm.batch_size # rbm.nvis
    /\ Shape(shared["particles"]) = <<rbm.batch_size, rbm.nvis>>

\* C7: with steps < 1 every updates() call (direct or through
\* training_updates) ends with an error and returns no update set.
C7_NoStepsRaises ==
    (IsUpdatesCall /\ sampler.steps < 1)
        => (ret.exc # "none" /\ DOMAIN ret.upd = {})

\* C7 witness: updates() was called on a sampler with steps = 0.
C7_Witness ==
    /\ ret.op = "updates"
    /\ sampler.steps = 0
    /\ ret.exc = "UnboundLocalError"

\* C8: mean_v_given_h and sample_visibles raise NotImplementedError and return
\* no value on mu_pooled_ssRBM, and return a value on the other variants.
C8_PooledNotSupported ==
    ret.op \in {"mean_v_given_h", "sample_visibles"}
        => IF rbm.cls = "mu_pooled_ssRBM"
           THEN ret.exc = "NotImplementedError" /\ "val" \notin DOMAIN ret.out
           ELSE ret.exc = "none" /\ "val" \in DOMAIN ret.out

\* C8 witness: mean_v_given_h was called on a mu_pooled_ssRBM.
C8_Witness ==
    /\ ret.op = "mean_v_given_h"
    /\ rbm.cls = "mu_pooled_ssRBM"
    /\ ret.exc = "NotImplementedError"

\* C9: a returned stack has one layer per entry of nhids, layer 1 has the
\* nvis of the call, layer k > 1 has nvis = nhids[k - 1], and layer k has
\* nhid = nhids[k].
C9_StackChain ==
    (stack.op = "build_stacked_RBM" /\ stack.exc = "none")
        => /\ Len(stack.layers) = Len(stack.nhids)
           /\ stack.layers[1].nvis = stack.nvis
           /\ \A k \in 2..Len(stack.layers) : stack.layers[k].nvis = stack.nhids[k - 1]
           /\ \A k \in 1..Len(stack.layers) : stack.layers[k].nhid = stack.nhids[k]

ValidFlags(vis_type, input_mean_vis) ==
    \/ vis_type = "binary" /\ input_mean_vis = "None"
    \/ vis_type = "gaussian" /\ input_mean_vis \in {"True", "False"}

\* C10: build_stacked_RBM passes its flag checks exactly for binary with
\* input_mean_vis None and gaussian with input_mean_vis True or False; a
\* returned gaussian stack starts with a GaussianBinaryRBM with mean_vis =
\* input_mean_vis followed by binary RBMs, a returned binary stack is all RBMs.
C10_FlagCombinations ==
    stack.op = "build_stacked_RBM"
        => /\ ValidFlags(stack.vis_type, stack.input_mean_vis)
                <=> stack.exc \notin {"AssertionError", "TypeError"}
           /\ ~ValidFlags(stack.vis_type, stack.input_mean_vis)
                => stack.layers = <<>>
           /\ (stack.exc = "none" /\ stack.vis_type = "gaussian")
                => /\ stack.layers[1].cls = "GaussianBinaryRBM"
                   /\ stack.layers[1].mean_vis = stack.input_mean_vis
                   /\ \A k \in 2..Len(stack.layers) : stack.layers[k].cls = "RBM"
           /\ (stack.exc = "none" /\ stack.vis_type = "binary")
                => \A k \in 1..Len(stack.layers) : stack.layers[k].cls = "RBM"

\* C11: constructing a binary-binary RBM completes without an error and
\* allocates visbias of length nvis, hidbias of length nhid and weights of
\* shape (nvis, nhid), whether rng is omitted, an integer seed or a
\* RandomState object.
C11_ConstructsWithAnySeed ==
    (ret.op = "RBM" /\ ret.rng \in {"omitted", "int", "RandomState"})
        => /\ ret.exc = "none"
           /\ Len(ret.vars["vb"]) = ret.nvis
           /\ Len(ret.vars["hb"]) = ret.nhid
           /\ Shape(ret.vars["W"]) = <<ret.nvis, ret.nhid>>

\* C12: a call of PersistentCDSampler.updates() or of training_updates only
\* computes next values: it leaves the particles and every tensor of the model
\* as they were, so that without a committed update set they keep the values
\* they had before the first call.  (The steps that leave the outcome of such
\* a call in ret are the steps of SamplerUpdates and TrainingUpdates: every
\* other operation leaves an outcome of its own.)
C12_CallsOnlyComputeNextValues ==
    [][ret'.op \in {"updates", "training_updates"}
          => \A k \in DOMAIN shared : shared'[k] = shared[k]]_vars

\* a call has returned new particles that differ from the current ones, and
\* nothing was committed
C12_Witness ==
    /\ commits = 0
    /\ Returned
    /\ ret.evaluable
    /\ "h_sample" \in DOMAIN shared
    /\ ret.upd["particles"] # shared["particles"]

\* C13: in every Gibbs step of every variant the hidden value handed to the
\* visible conditional is h_sample, a tensor of zeros and ones, and not the
\* mean; the diagnostics of the step hold the h_mean computed from the step's
\* input, the h_sample and the v_mean computed from that h_sample.
C13_SampleIsPropagated ==
    Returned =>
        \A i \in 1..Len(ret.its) :
            ret.its[i].ok =>
                LET l == ret.its[i]._locals
                IN  /\ {"h_mean", "h_sample", "v_mean"} \subseteq DOMAIN l
                    /\ l.hidden_arg = l.h_sample
                    /\ IsBinary(l.hidden_arg)
                    /\ Shape(l.hidden_arg) = <<rbm.batch_size, rbm.nhid>>
                    /\ l.h_mean = mean_h_given_v(rbm, shared, l.v)
                    /\ IF rbm.cls = "mu_pooled_ssRBM"
                       THEN l.v_mean.h = l.h_sample
                       ELSE l.v_mean = mean_v_given_h(rbm, shared, l.h_sample).val

\* a call of two Gibbs steps whose last hidden sample has a unit that is off
C13_Witness ==
    /\ Returned
    /\ Len(ret.its) = 2
    /\ LastIt.ok
    /\ LastIt._locals.h_sample # Fill(rbm.batch_size, rbm.nhid, 1)

\* C14: in every reachable state of a sampler with a clip range, the state
\* right after construction included, every entry of particles lies within
\* the clip range and particles has batch_size rows.
C14_ParticlesWithinClip ==
    sampler.particles_clip # None
        => /\ InRange(shared["particles"], sampler.particles_clip[1],
                      sampler.particles_clip[2])
           /\ Rows(shared["particles"]) = rbm.batch_size

\* C15: a sampler whose particles do not have the shape (batch_size, nvis) of
\* its model is rejected: its construction did not raise (the sampler exists),
\* so a call of updates() or training_updates on it raises an error and
\* returns no update set.
C15_MismatchRejected ==
    (IsUpdatesCall /\ Shape(shared["particles"]) # <<rbm.batch_size, rbm.nvis>>)
        => /\ ret.exc # "none"
           /\ ret.upd = <<>>


====
